---- MODULE Spec2Model ----
(***************************************************************************)
(* Model of src/webmap.ts (kartograf): the Webmap composition engine.      *)
(* It builds one base layer (a layer group) per level and one overlay per  *)
(* (level, overlay layer), registers them with a Leaflet layers control    *)
(* and re-registers the overlays of the selected level on every            *)
(* 'baselayerchange' event.                                                *)
(*                                                                         *)
(* JavaScript objects used as dictionaries are modelled as ordered maps    *)
(* (sequences of [key, value] records in insertion order), because         *)
(* for..in visits keys in insertion order.  Leaflet layer objects are      *)
(* identified by an id record [gen, role, level, slot]: gen is the         *)
(* initialize() call that allocated the object, so objects built by two    *)
(* calls are different objects, as they are for L.stamp().                 *)
(***************************************************************************)
EXTENDS Integers, Sequences, FiniteSets, TLC

VARIABLES
    map,            \* this._map: the MapDescription (never assigned after construction)
    config,         \* this._config
    paramPathGetter,\* params.pathGetter as given to the constructor
    pathGetter,     \* this._pathGetter
    baseLayers,     \* this._baseLayers
    overlays,       \* this._overlays
    mainBaseLayer,  \* this._mainBaseLayer
    layersControl,  \* this._layersControl._layers: entries of the layers control
    mapLayers,      \* the layers currently added to this._webmap (the view)
    listeners,      \* number of 'baselayerchange' listeners subscribed on this._webmap
    initCount,      \* number of initialize() calls made so far
    status,         \* "constructed", or how the last initialize() ended: "active" | "threw"
    notified,       \* history: <<>>, or the name carried by the last baselayerchange event
    syncsRun        \* history: number of _updateOverlays invocations made by the last step

vars == <<map, config, paramPathGetter, pathGetter, baseLayers, overlays, mainBaseLayer,
          layersControl, mapLayers, listeners, initCount, status, notified, syncsRun>>

----------------------------------------------------------------------------
(* Bounds *)

MaxInit == 2        \* initialize() calls explored
MaxVisible == 1     \* overlays the user has ticked at the same time
MaxOverlays == 2    \* overlay names in map.layers (after the primary layer)
MaxUnderlays == 2   \* underlay names per level

(* Program constants *)

OverlayTileSize == 1024
MaxZoom == 4

Undefined == "undefined"
MapName == "station"
PrimaryLayerName == "floor"
OverlayLayerNames == {"electrical", "plumbing"}
Labels == {"Electrical", "Plumbing"}
LevelNames == {"L1", "L2"}
UnderlayPool == <<"U1", "U2", "U3">>
TileSizes == {256}
EventNames == LevelNames \cup {"Other"}

----------------------------------------------------------------------------
(* Ordered maps: JavaScript objects with string keys *)

EmptyObject == <<>>

Keys(m) == [i \in 1..Len(m) |-> m[i].key]

KeySet(m) == {m[i].key : i \in 1..Len(m)}

Has(m, k) == k \in KeySet(m)

Get(m, k) == LET i == CHOOSE j \in 1..Len(m) : m[j].key = k IN m[i].value

\* obj[k] = v: an existing key keeps its position, a new key is appended
Put(m, k, v) ==
    IF Has(m, k)
    THEN [i \in 1..Len(m) |-> IF m[i].key = k THEN [key |-> k, value |-> v] ELSE m[i]]
    ELSE Append(m, [key |-> k, value |-> v])

Values(m) == [i \in 1..Len(m) |-> m[i].value]

Range(s) == {s[i] : i \in 1..Len(s)}

----------------------------------------------------------------------------
(* Leaflet primitives and the injected path getter *)

LayerId(gen, role, level, slot) == [gen |-> gen, role |-> role, level |-> level, slot |-> slot]

\* A FileLayerPathGetter call: the location depends on the getter and its three arguments
Path(pg, mapName, levelName, layerName) ==
    [getter |-> pg.name, mapName |-> mapName, level |-> levelName, layer |-> layerName]

\* The built-in getters build a string; a caller-supplied getter may throw
PathGetterThrows(pg, layerName) == pg.throwsOn = layerName

TileLayer(id, path, className, tileSize) ==
    [id |-> id, kind |-> "tile", path |-> path, suffix |-> "/{z}/{x}/{y}.png",
     className |-> className, maxZoom |-> MaxZoom, maxNativeZoom |-> MaxZoom,
     tileSize |-> tileSize]

ImageOverlay(id, path, className) ==
    [id |-> id, kind |-> "image", path |-> path, suffix |-> "",
     className |-> className, maxZoom |-> 0, maxNativeZoom |-> 0, tileSize |-> 0]

\* variant: the primary visual is put first, under the underlays
LayerGroupPrimaryFirst(id, underlays, baseLayer) ==
    [id |-> id, members |-> <<baseLayer>> \o underlays]

\* L.layerGroup(underlays).addLayer(baseLayer)
LayerGroup(id, underlays, baseLayer) == [id |-> id, members |-> Append(underlays, baseLayer)]

----------------------------------------------------------------------------
(* Accessors *)

IsTiles == config.layerSettings.type = "Tiles"

\* this.map.layers[0]
Layer0 == IF Len(map.layers) >= 1 THEN map.layers[1] ELSE Undefined

\* this.map.layers.slice(1)
Slice1(s) == IF Len(s) <= 1 THEN <<>> ELSE SubSeq(s, 2, Len(s))

----------------------------------------------------------------------------
(* Layer factory *)

UnderlayLayer(gen, levelName, i) ==
    LET underlayName == map.levels[levelName].underlays[i]
        id == LayerId(gen, "underlay", levelName, i)
        path == Path(pathGetter, MapName, underlayName, Layer0)
    IN  IF IsTiles
        THEN TileLayer(id, path, "UnderlayLayer", config.layerSettings.tileSize)
        ELSE ImageOverlay(id, path, "UnderlayLayer")

UnderlaysOf(gen, levelName) ==
    LET level == map.levels[levelName]
    IN  IF level.hasUnderlays
        THEN [i \in 1..Len(level.underlays) |-> UnderlayLayer(gen, levelName, i)]
        ELSE <<>>

PrimaryLayer(gen, levelName) ==
    LET id == LayerId(gen, "primary", levelName, 0)
        path == Path(pathGetter, MapName, levelName, Layer0)
    IN  IF IsTiles
        THEN TileLayer(id, path, "", config.layerSettings.tileSize)
        ELSE ImageOverlay(id, path, "")

BaseLayerOf(gen, levelName) ==
    LayerGroup(LayerId(gen, "group", levelName, 0),
               UnderlaysOf(gen, levelName), PrimaryLayer(gen, levelName))

RECURSIVE BuildBaseLayers(_, _, _)
BuildBaseLayers(gen, names, acc) ==
    IF names = <<>> THEN acc
    ELSE BuildBaseLayers(gen, Tail(names),
                         Put(acc, Head(names), BaseLayerOf(gen, Head(names))))

\* Every level resolves its primary visual (and its underlays) against layers[0]
GetBaseLayersThrows == map.levelNames # <<>> /\ PathGetterThrows(pathGetter, Layer0)

GetBaseLayersForMap(gen) == BuildBaseLayers(gen, map.levelNames, EmptyObject)

\* variant: the overlay tiles take the configured tile size
OverlayLayerConfiguredTileSize(gen, levelName, slot) ==
    LET layerName == map.layers[slot]
        id == LayerId(gen, "overlay", levelName, slot)
        path == Path(pathGetter, MapName, levelName, layerName)
    IN  IF IsTiles
        THEN TileLayer(id, path, "", config.layerSettings.tileSize)
        ELSE ImageOverlay(id, path, "")

OverlayLayer(gen, levelName, slot) ==
    LET layerName == map.layers[slot]
        id == LayerId(gen, "overlay", levelName, slot)
        path == Path(pathGetter, MapName, levelName, layerName)
    IN  IF IsTiles
        THEN TileLayer(id, path, "", OverlayTileSize)
        ELSE ImageOverlay(id, path, "")

\* overlays[levelName][layer.display] = overlay, for the layers from slot on
RECURSIVE BuildLevelOverlays(_, _, _, _)
BuildLevelOverlays(gen, levelName, slot, acc) ==
    IF slot > Len(map.layers) THEN acc
    ELSE BuildLevelOverlays(gen, levelName, slot + 1,
             Put(acc, config.layers[map.layers[slot]].display,
                 OverlayLayer(gen, levelName, slot)))

LevelOverlays(gen, levelName) == BuildLevelOverlays(gen, levelName, 2, EmptyObject)

RECURSIVE BuildOverlays(_, _, _)
BuildOverlays(gen, names, acc) ==
    IF names = <<>> THEN acc
    ELSE BuildOverlays(gen, Tail(names),
                       Put(acc, Head(names), LevelOverlays(gen, Head(names))))

\* variant: the exception of the path getter is swallowed
GetOverlaysThrowsCaught == FALSE

GetOverlaysThrows ==
    /\ map.levelNames # <<>>
    /\ \E layerName \in Range(Slice1(map.layers)) : PathGetterThrows(pathGetter, layerName)

\* variant: a level gets its entry only with its first overlay
GetOverlaysNonEmptyOnly(gen) ==
    IF Len(map.layers) >= 2 THEN BuildOverlays(gen, map.levelNames, EmptyObject) ELSE EmptyObject

GetOverlays(gen) == BuildOverlays(gen, map.levelNames, EmptyObject)

----------------------------------------------------------------------------
(* The layers control (L.Control.Layers) as this class uses it *)

\* variant: a name that already has a base entry is not registered again
AddBaseLayerOnce(ctrl, layer, name) ==
    IF \E i \in 1..Len(ctrl) : ~ctrl[i].overlay /\ ctrl[i].name = name
    THEN ctrl
    ELSE Append(ctrl, [layer |-> layer.id, name |-> name, overlay |-> FALSE])

\* this._layersControl.addBaseLayer(layer, name)
AddBaseLayer(ctrl, layer, name) ==
    Append(ctrl, [layer |-> layer.id, name |-> name, overlay |-> FALSE])

\* this._layersControl.addOverlay(layer, name)
AddOverlay(ctrl, layer, name) ==
    Append(ctrl, [layer |-> layer.id, name |-> name, overlay |-> TRUE])

\* variant: splice(indexOf(obj), 1) without the test, which drops the last entry
\* when the layer has none
RemoveLayerUnguarded(ctrl, layer) ==
    IF \E i \in 1..Len(ctrl) : ctrl[i].layer = layer.id
    THEN LET i == CHOOSE j \in 1..Len(ctrl) :
                      /\ ctrl[j].layer = layer.id
                      /\ \A k \in 1..(j - 1) : ctrl[k].layer # layer.id
         IN  SubSeq(ctrl, 1, i - 1) \o SubSeq(ctrl, i + 1, Len(ctrl))
    ELSE SubSeq(ctrl, 1, Len(ctrl) - 1)

\* this._layersControl.removeLayer(layer): drops the entry of that layer object, if
\* there is one; the layer itself stays wherever it is displayed
RemoveLayer(ctrl, layer) ==
    IF \E i \in 1..Len(ctrl) : ctrl[i].layer = layer.id
    THEN LET i == CHOOSE j \in 1..Len(ctrl) :
                      /\ ctrl[j].layer = layer.id
                      /\ \A k \in 1..(j - 1) : ctrl[k].layer # layer.id
         IN  SubSeq(ctrl, 1, i - 1) \o SubSeq(ctrl, i + 1, Len(ctrl))
    ELSE ctrl

OverlayEntries(ctrl) == SelectSeq(ctrl, LAMBDA e : e.overlay)

BaseEntries(ctrl) == SelectSeq(ctrl, LAMBDA e : ~e.overlay)

----------------------------------------------------------------------------
(* Webmap._addBaseLayersToControl *)

\* variant: only the first base layer is registered
AddFirstBaseLayerToControl(ctrl, bl) ==
    IF bl = <<>> THEN ctrl ELSE AddBaseLayer(ctrl, Head(bl).value, Head(bl).key)

RECURSIVE AddBaseLayersToControl(_, _)
AddBaseLayersToControl(ctrl, bl) ==
    IF bl = <<>> THEN ctrl
    ELSE AddBaseLayersToControl(AddBaseLayer(ctrl, Head(bl).value, Head(bl).key), Tail(bl))

(* Webmap._findMainBaseLayer *)

NoLayer == [defined |-> FALSE, layer |-> LayerId(0, "none", Undefined, 0), name |-> Undefined]

\* variant: the first base layer, whatever mainLevel says
FindFirstBaseLayer(bl) ==
    IF bl = <<>> THEN NoLayer
    ELSE [defined |-> TRUE, layer |-> Head(bl).value.id, name |-> Head(bl).key]

\* variant: mainLevel if it is a level, else the first base layer
FindMainOrFirstBaseLayer(bl) ==
    IF \E i \in 1..Len(bl) : bl[i].key = map.mainLevel
    THEN LET i == CHOOSE j \in 1..Len(bl) : bl[j].key = map.mainLevel
         IN  [defined |-> TRUE, layer |-> bl[i].value.id, name |-> bl[i].key]
    ELSE FindFirstBaseLayer(bl)

RECURSIVE FindMainBaseLayer(_)
FindMainBaseLayer(bl) ==
    IF bl = <<>> THEN NoLayer
    ELSE IF Head(bl).key = map.mainLevel
         THEN [defined |-> TRUE, layer |-> Head(bl).value.id, name |-> Head(bl).key]
         ELSE FindMainBaseLayer(Tail(bl))

(* Webmap._updateOverlays *)

RECURSIVE RemoveLevelOverlays(_, _)
RemoveLevelOverlays(ctrl, levelOverlays) ==
    IF levelOverlays = <<>> THEN ctrl
    ELSE RemoveLevelOverlays(RemoveLayer(ctrl, Head(levelOverlays).value), Tail(levelOverlays))

\* first loop: every overlay of every level is removed from the control
RECURSIVE RemoveAllOverlays(_, _)
RemoveAllOverlays(ctrl, ovl) ==
    IF ovl = <<>> THEN ctrl
    ELSE RemoveAllOverlays(RemoveLevelOverlays(ctrl, Head(ovl).value), Tail(ovl))

RECURSIVE AddLevelOverlays(_, _)
AddLevelOverlays(ctrl, levelOverlays) ==
    IF levelOverlays = <<>> THEN ctrl
    ELSE AddLevelOverlays(AddOverlay(ctrl, Head(levelOverlays).value, Head(levelOverlays).key),
                          Tail(levelOverlays))

\* variant: an unknown level falls back to the first level's overlays
TargetOverlaysOrFirst(ovl, targetLevel) ==
    IF Has(ovl, targetLevel) THEN Get(ovl, targetLevel)
    ELSE IF ovl # <<>> THEN ovl[1].value ELSE EmptyObject

\* this._overlays[targetLevel]; for..in over undefined visits nothing
TargetOverlays(ovl, targetLevel) ==
    IF Has(ovl, targetLevel) THEN Get(ovl, targetLevel) ELSE EmptyObject

\* variant: only the target level's entries are cleared before they are added
UpdateOverlaysClearTargetOnly(ctrl, ovl, targetLevel) ==
    AddLevelOverlays(RemoveLevelOverlays(ctrl, TargetOverlays(ovl, targetLevel)),
                     TargetOverlays(ovl, targetLevel))

\* variant: nothing is cleared
UpdateOverlaysNoClear(ctrl, ovl, targetLevel) ==
    AddLevelOverlays(ctrl, TargetOverlays(ovl, targetLevel))

UpdateOverlays(ctrl, ovl, targetLevel) ==
    AddLevelOverlays(RemoveAllOverlays(ctrl, ovl), TargetOverlays(ovl, targetLevel))

\* webmap.fire('baselayerchange', {name}): every subscribed listener runs _updateOverlays
RECURSIVE FireBaseLayerChange(_, _, _, _)
FireBaseLayerChange(ctrl, ovl, n, name) ==
    IF n = 0 THEN ctrl
    ELSE FireBaseLayerChange(UpdateOverlays(ctrl, ovl, name), ovl, n - 1, name)

----------------------------------------------------------------------------
(* Inputs: the map description, the configuration, the optional path getter *)

SeqsUpTo(S, n) == UNION {[1..k -> S] : k \in 0..n}

\* a level without underlays, or with the first n names of the pool
LevelChoices ==
    {[hasUnderlays |-> FALSE, underlays |-> <<>>]} \cup
    {[hasUnderlays |-> TRUE, underlays |-> SubSeq(UnderlayPool, 1, n)] : n \in 0..MaxUnderlays}

LevelKeyOrders == {<<>>, <<"L1">>, <<"L1", "L2">>}

\* layers: empty, or the primary layer followed by overlay names (repeats allowed)
LayerSeqs ==
    {<<>>} \cup {<<PrimaryLayerName>> \o s : s \in SeqsUpTo(OverlayLayerNames, MaxOverlays)}

\* the layer lists of the interactive runs: no, one and two overlays
LayerLists ==
    {<<>>, <<PrimaryLayerName>>, <<PrimaryLayerName, "electrical">>,
     <<PrimaryLayerName, "electrical", "plumbing">>}

MapDescriptions(levelChoices, layerSeqs) ==
    UNION {{[levelNames |-> names, levels |-> levels, layers |-> layers, mainLevel |-> main] :
                levels \in [Range(names) -> levelChoices],
                layers \in layerSeqs, main \in LevelNames} : names \in LevelKeyOrders}

LayerSettings ==
    {[type |-> Undefined, tileSize |-> 0], [type |-> "Image", tileSize |-> 0]} \cup
    {[type |-> "Tiles", tileSize |-> t] : t \in TileSizes}

LayerConfigs ==
    {[n \in OverlayLayerNames \cup {PrimaryLayerName} |->
        [display |-> IF n = PrimaryLayerName THEN "Floor" ELSE d[n]]] :
        d \in [OverlayLayerNames -> Labels]}

Configs(settings) ==
    {[layerSettings |-> ls, layers |-> lc] : ls \in settings, lc \in LayerConfigs}

NoPathGetter == [name |-> Undefined, throwsOn |-> "none"]

PathGetterParams ==
    {NoPathGetter} \cup
    {[name |-> "custom", throwsOn |-> t] : t \in {"none", PrimaryLayerName, "electrical"}}

getLayerFolder == [name |-> "getLayerFolder", throwsOn |-> "none"]
getLayerImage == [name |-> "getLayerImage", throwsOn |-> "none"]

----------------------------------------------------------------------------
(* Webmap.constructor *)

\* variant: the configured strategy wins over a caller-supplied getter
SelectPathGetterByStrategy(cfg, param) ==
    IF cfg.layerSettings.type = "Tiles" THEN getLayerFolder
    ELSE IF param = NoPathGetter THEN getLayerImage ELSE param

SelectPathGetter(cfg, param) ==
    IF param = NoPathGetter
    THEN IF cfg.layerSettings.type = "Tiles" THEN getLayerFolder ELSE getLayerImage
    ELSE param

Constructor(m, cfg, param) ==
    /\ map = m
    /\ config = cfg
    /\ paramPathGetter = param
    /\ pathGetter = SelectPathGetter(cfg, param)
    /\ baseLayers = EmptyObject
    /\ overlays = EmptyObject
    /\ mainBaseLayer = NoLayer
    /\ layersControl = <<>>
    /\ mapLayers = {}
    /\ listeners = 0
    /\ initCount = 0
    /\ status = "constructed"
    /\ notified = <<>>
    /\ syncsRun = 0

\* every map description and configuration within the bounds
InitFactory ==
    \E m \in MapDescriptions(LevelChoices, LayerSeqs), cfg \in Configs(LayerSettings),
       param \in PathGetterParams : Constructor(m, cfg, param)

\* The interactive runs fix what the events cannot observe (the underlays, the layer
\* settings, the label of the first overlay), use the default path getter or a
\* caller-supplied one that throws, and with two levels take the first as main level
\* (the other choice is symmetric)
Init ==
    \E m \in {d \in MapDescriptions({[hasUnderlays |-> TRUE,
                                        underlays |-> SubSeq(UnderlayPool, 1, 1)]}, LayerLists) :
                    Len(d.levelNames) = 2 => d.mainLevel = d.levelNames[1]},
       cfg \in {c \in Configs({[type |-> "Tiles", tileSize |-> 256]}) :
                    c.layers["electrical"].display = "Electrical"},
       param \in {g \in PathGetterParams : g = NoPathGetter \/ g.throwsOn # "none"} :
           Constructor(m, cfg, param)

----------------------------------------------------------------------------
(* Webmap.initialize *)

\* variant: the listener of this call is subscribed before the main layer is added
SubscribedAtAddToWithOwn(n) == n + 1

\* the listeners subscribed when line 106 adds the main base layer to the view: those
\* of earlier initialize() calls; this call subscribes its own afterwards (line 109)
SubscribedAtAddTo(n) == n

Initialize ==
    /\ initCount < MaxInit
    /\ initCount' = initCount + 1
    /\ LET gen == initCount + 1
           bl == GetBaseLayersForMap(gen)
           ctrl1 == AddBaseLayersToControl(layersControl, bl)
           ovl == GetOverlays(gen)
           main == FindMainBaseLayer(bl)
           ctrl2 == IF main.defined THEN UpdateOverlays(ctrl1, ovl, main.name) ELSE ctrl1
           \* addTo(webmap) makes the control fire 'baselayerchange'; it reaches the
           \* listeners subscribed by earlier initialize() calls, not the one added below
           ctrl3 == IF main.defined
                    THEN FireBaseLayerChange(ctrl2, ovl, SubscribedAtAddTo(listeners),
                                             main.name)
                    ELSE ctrl2
       IN  IF GetBaseLayersThrows
           THEN /\ status' = "threw"
                /\ UNCHANGED <<baseLayers, overlays, mainBaseLayer, layersControl,
                               mapLayers, listeners>>
                /\ syncsRun' = 0
           ELSE IF GetOverlaysThrows
           THEN /\ status' = "threw"
                /\ baseLayers' = bl
                /\ layersControl' = ctrl1
                /\ UNCHANGED <<overlays, mainBaseLayer, mapLayers, listeners>>
                /\ syncsRun' = 0
           ELSE /\ status' = "active"
                /\ baseLayers' = bl
                /\ overlays' = ovl
                /\ mainBaseLayer' = main
                /\ layersControl' = ctrl3
                /\ mapLayers' = IF main.defined THEN mapLayers \cup {main.layer} ELSE mapLayers
                /\ syncsRun' = IF main.defined THEN 1 + SubscribedAtAddTo(listeners) ELSE 0
                /\ listeners' = listeners + 1
    /\ UNCHANGED <<map, config, paramPathGetter, pathGetter, notified>>

(* The 'baselayerchange' listener subscribed by initialize *)

\* an event fired on the map by someone else (another control, a script)
Notify(name) ==
    /\ status # "constructed"
    /\ notified' = <<name>>
    /\ layersControl' = FireBaseLayerChange(layersControl, overlays, listeners, name)
    /\ syncsRun' = listeners
    /\ UNCHANGED <<map, config, paramPathGetter, pathGetter, baseLayers, overlays,
                   mainBaseLayer, mapLayers, listeners, initCount, status>>

\* the user picks base entry i of the control: its layer replaces the other base
\* layers in the view and the control fires 'baselayerchange' with the entry's name
SelectBaseLayer(i) ==
    /\ i \in 1..Len(layersControl)
    /\ ~layersControl[i].overlay
    /\ layersControl[i].layer \notin mapLayers
    /\ mapLayers' = (mapLayers \ {e.layer : e \in Range(BaseEntries(layersControl))})
                        \cup {layersControl[i].layer}
    /\ notified' = <<layersControl[i].name>>
    /\ layersControl' = FireBaseLayerChange(layersControl, overlays, listeners,
                                            layersControl[i].name)
    /\ syncsRun' = listeners
    /\ UNCHANGED <<map, config, paramPathGetter, pathGetter, baseLayers, overlays,
                   mainBaseLayer, listeners, initCount, status>>

\* the user ticks or unticks overlay entry i of the control
ToggleOverlay(i) ==
    /\ i \in 1..Len(layersControl)
    /\ layersControl[i].overlay
    /\ \/ /\ layersControl[i].layer \in mapLayers
          /\ mapLayers' = mapLayers \ {layersControl[i].layer}
       \/ /\ layersControl[i].layer \notin mapLayers
          /\ Cardinality({l \in mapLayers : l.role = "overlay"}) < MaxVisible
          /\ mapLayers' = mapLayers \cup {layersControl[i].layer}
    /\ UNCHANGED <<map, config, paramPathGetter, pathGetter, baseLayers, overlays,
                   mainBaseLayer, layersControl, listeners, initCount, status,
                   notified>>
    /\ syncsRun' = 0

Next ==
    \/ Initialize
    \/ \E name \in EventNames : Notify(name)
    \/ \E i \in 1..Len(layersControl) : SelectBaseLayer(i)
    \/ \E i \in 1..Len(layersControl) : ToggleOverlay(i)

Spec == Init /\ [][Next]_vars

\* the layer factory alone, over every input
NextFactory == Initialize

SpecFactory == InitFactory /\ [][NextFactory]_vars

----------------------------------------------------------------------------
(* Vocabulary of the properties *)

LevelSet == Range(map.levelNames)

MainResolvable == map.mainLevel \in LevelSet

\* the level named by the last baselayerchange event, mainLevel before any event
ActiveLevel == IF notified # <<>> THEN notified[1] ELSE map.mainLevel

\* the control entries that registering exactly the overlays of a level gives
EntriesOf(levelOverlays) ==
    [i \in 1..Len(levelOverlays) |->
        [layer |-> levelOverlays[i].value.id, name |-> levelOverlays[i].key, overlay |-> TRUE]]

OverlaysOfLevel(level) == IF Has(overlays, level) THEN Get(overlays, level) ELSE <<>>

VisibleBaseLayers == {l \in mapLayers : l.role = "group"}

VisibleOverlays == {l \in mapLayers : l.role = "overlay"}

NoRepeats(s) == \A i, j \in 1..Len(s) : s[i] = s[j] => i = j

\* every renderable built so far: underlays and primary visuals, and overlays
BaseRenderables == UNION {Range(baseLayers[i].value.members) : i \in 1..Len(baseLayers)}

OverlayRenderables == UNION {Range(Values(overlays[i].value)) : i \in 1..Len(overlays)}

----------------------------------------------------------------------------
(* Properties *)

\* C1: after one initialize() with a resolvable mainLevel and any sequence of
\* baselayerchange events, the overlay entries of the control are exactly the
\* overlays of the level named by the last event (of mainLevel before any event).
C1_ControlShowsActiveLevel ==
    (initCount = 1 /\ status = "active" /\ MainResolvable)
        => OverlayEntries(layersControl) = EntriesOf(OverlaysOfLevel(ActiveLevel))

\* sync(L1) at initialization, then sync(L2), L1 # L2, both with overlays
C1_Witness ==
    /\ initCount = 1 /\ status = "active" /\ MainResolvable
    /\ notified # <<>> /\ notified[1] # map.mainLevel /\ notified[1] \in LevelSet
    /\ Len(OverlaysOfLevel(map.mainLevel)) = 2
    /\ Len(OverlayEntries(layersControl)) = 2

\* C2: when the view shows the base layer of the selected level, every overlay
\* displayed in the view belongs to that level.
C2_VisibleOverlaysBelongToActiveLevel ==
    (/\ initCount = 1 /\ status = "active" /\ Has(baseLayers, ActiveLevel)
     /\ VisibleBaseLayers = {Get(baseLayers, ActiveLevel).id})
        => \A l \in VisibleOverlays : l.level = ActiveLevel

\* C3: when initialize() returns with a resolvable mainLevel, the base layer of
\* mainLevel is the one base layer in the view and the overlay entries of the
\* control are exactly the overlays of mainLevel.
C3_MainLevelActivated ==
    (initCount = 1 /\ status = "active" /\ MainResolvable)
        => /\ VisibleBaseLayers = {Get(baseLayers, map.mainLevel).id}
           /\ mainBaseLayer.defined /\ mainBaseLayer.name = map.mainLevel
           /\ OverlayEntries(layersControl) = EntriesOf(OverlaysOfLevel(map.mainLevel))

\* mainLevel is the second of two levels and has overlays
C3_Witness ==
    /\ initCount = 1 /\ status = "active"
    /\ Len(map.levelNames) = 2 /\ map.mainLevel = map.levelNames[2]
    /\ Len(OverlayEntries(layersControl)) >= 1
    /\ VisibleBaseLayers # {}

\* C4: with a mainLevel that names no level, initialize() raises nothing of its own
\* (it ends in an error only when the path getter throws), and until a
\* baselayerchange event arrives no base layer is in the view and the control has
\* no overlay entry.
C4_UnresolvableMainLevel ==
    (initCount >= 1 /\ ~MainResolvable /\ notified = <<>>)
        => /\ VisibleBaseLayers = {}
           /\ OverlayEntries(layersControl) = <<>>
           /\ ~mainBaseLayer.defined
           /\ (status = "threw" => GetBaseLayersThrows \/ GetOverlaysThrows)

\* initialize() returned; there are levels with overlays, none of them mainLevel
C4_Witness ==
    /\ initCount >= 1 /\ status = "active" /\ ~MainResolvable /\ notified = <<>>
    /\ map.levelNames # <<>> /\ Len(map.layers) >= 2
    /\ Len(BaseEntries(layersControl)) >= 1

\* C5: _updateOverlays(L) run twice in a row leaves the control as running it once,
\* for every name L, from every state the control can be in.
C5_SyncIdempotent ==
    \A name \in EventNames :
        UpdateOverlays(UpdateOverlays(layersControl, overlays, name), overlays, name)
            = UpdateOverlays(layersControl, overlays, name)

\* one step ran _updateOverlays twice in a row with the same name, and left entries
C5_Witness ==
    /\ syncsRun >= 2
    /\ Len(OverlayEntries(layersControl)) >= 1
    /\ notified # <<>>

\* C6: every level has exactly |layers| - 1 overlays (none for empty layers); stated
\* here for layer lists that name no layer twice.
C6_OverlayCountIsLayersMinusOne ==
    (status = "active" /\ NoRepeats(map.layers))
        => \A i \in 1..Len(overlays) :
              Len(overlays[i].value) = IF Len(map.layers) >= 1 THEN Len(map.layers) - 1 ELSE 0

\* C7: once an initialize() has returned, BaseLayers, Overlays and levels have the
\* same keys, in the same order, in every later state.
C7_SameKeys ==
    listeners >= 1
        => /\ Keys(baseLayers) = map.levelNames
           /\ Keys(overlays) = map.levelNames
           /\ KeySet(baseLayers) = KeySet(overlays)

\* two levels and no overlay layer, after an event
C7_Witness ==
    /\ listeners >= 1 /\ Len(map.levelNames) = 2 /\ Len(map.layers) = 1
    /\ notified # <<>>

\* C8: after one initialize(), a baselayerchange event whose name has no entry in
\* Overlays leaves the control without overlay entries.
C8_UnknownLevelClears ==
    (initCount = 1 /\ status = "active" /\ notified # <<>> /\ ~Has(overlays, notified[1]))
        => OverlayEntries(layersControl) = <<>>

\* the overlays of mainLevel were registered before the event
C8_Witness ==
    /\ initCount = 1 /\ status = "active" /\ MainResolvable
    /\ notified # <<>> /\ ~Has(overlays, notified[1])
    /\ Len(OverlaysOfLevel(map.mainLevel)) >= 1
    /\ OverlayEntries(layersControl) = <<>>

\* C9: the path getter is the caller-supplied one whenever there is one, else the
\* folder getter for 'Tiles' and the image getter otherwise; initialize() never
\* changes it.
C9_PathGetterFixed ==
    pathGetter = IF paramPathGetter # NoPathGetter THEN paramPathGetter
                 ELSE IF config.layerSettings.type = "Tiles" THEN getLayerFolder
                 ELSE getLayerImage

\* a caller-supplied getter under the 'Tiles' strategy, after initialize()
C9_Witness ==
    /\ initCount >= 1 /\ status = "active"
    /\ paramPathGetter.name = "custom" /\ config.layerSettings.type = "Tiles"
    /\ pathGetter = paramPathGetter

\* C10: under 'Tiles' every underlay and primary visual is a tile layer with the
\* configured tile size and every overlay a tile layer with tile size 1024; under
\* any other or absent layerSettings every renderable is an image.
C10_OneStrategy ==
    IF config.layerSettings.type = "Tiles"
    THEN /\ \A r \in BaseRenderables :
                r.kind = "tile" /\ r.tileSize = config.layerSettings.tileSize
         /\ \A r \in OverlayRenderables : r.kind = "tile" /\ r.tileSize = 1024
    ELSE \A r \in BaseRenderables \cup OverlayRenderables : r.kind = "image"

\* 'Tiles' with a tile size other than 1024, with underlays and overlays built
C10_Witness ==
    /\ status = "active" /\ config.layerSettings.type = "Tiles"
    /\ config.layerSettings.tileSize # 1024
    /\ OverlayRenderables # {}
    /\ \E r \in BaseRenderables : r.id.role = "underlay"

\* every overlay object of the current Overlays, of any level
CurrentOverlayIds ==
    {r.id : r \in OverlayRenderables}

\* C11: after any sync call the control holds no stale overlay entry, also after
\* Overlays has been rebuilt by a repeated initialize(); stated here in its weakest
\* form: every overlay entry left by a step that ran _updateOverlays is an overlay of
\* the current Overlays.
C11_NoStaleEntryAfterSync ==
    syncsRun >= 1
        => \A i \in 1..Len(layersControl) :
              layersControl[i].overlay => layersControl[i].layer \in CurrentOverlayIds


\* one step of a run with a single initialize(): the first call itself, or an event
\* delivered after it has returned
C12_Step ==
    /\ (initCount = 0 /\ Initialize /\ status' = "active")
          => /\ syncsRun' = IF MainResolvable THEN 1 ELSE 0
             /\ listeners' = 1
             /\ layersControl' =
                    IF MainResolvable
                    THEN UpdateOverlays(AddBaseLayersToControl(layersControl, baseLayers'),
                                        overlays', map.mainLevel)
                    ELSE AddBaseLayersToControl(layersControl, baseLayers')
    /\ \A name \in EventNames :
          (initCount = 1 /\ status = "active" /\ Notify(name))
              => /\ syncsRun' = 1
                 /\ layersControl' = UpdateOverlays(layersControl, overlays, name)
    /\ \A i \in 1..Len(layersControl) :
          (initCount = 1 /\ status = "active" /\ SelectBaseLayer(i))
              => /\ syncsRun' = 1
                 /\ layersControl' =
                        UpdateOverlays(layersControl, overlays, layersControl[i].name)

\* C12: with a single initialize(), _updateOverlays runs exactly once during the call
\* when mainLevel is resolvable and not at all otherwise (adding the main base layer
\* to the view reaches no listener, the call subscribes its own afterwards), and once
\* initialize() has returned it runs exactly once per baselayerchange event, with the
\* name of the event as target.
C12_OneSyncPerNotification == [][C12_Step]_vars

\* the one sync of initialize() registered overlays and one event has been handled since
C12_Witness ==
    /\ initCount = 1 /\ status = "active" /\ MainResolvable
    /\ notified # <<>> /\ notified[1] \in LevelSet
    /\ syncsRun = 1 /\ listeners = 1
    /\ Len(OverlayEntries(layersControl)) >= 1


\* the labels of the base entries of the control, in order
BaseEntryNames ==
    [i \in 1..Len(BaseEntries(layersControl)) |-> BaseEntries(layersControl)[i].name]

\* C13: _updateOverlays changes only the overlay entries of the control (it reads
\* Overlays and calls nothing but removeLayer and addOverlay of the control, so
\* BaseLayers, Overlays and the view are out of its reach): no sync, whatever its
\* target, changes the base entries, so that once initialize() has returned the base
\* entries name exactly the levels in every reachable state, one entry per level
\* after a single call.
C13_SyncChangesOverlayEntriesOnly ==
    /\ listeners >= 1 => Range(BaseEntryNames) = LevelSet
    /\ (listeners >= 1 /\ initCount = 1) => BaseEntryNames = map.levelNames
    /\ \A name \in EventNames :
          BaseEntries(UpdateOverlays(layersControl, overlays, name))
              = BaseEntries(layersControl)

\* two levels, a sync that replaced the overlay entries of one by those of the other,
\* with an overlay displayed in the view
C13_Witness ==
    /\ initCount = 1 /\ status = "active" /\ Len(map.levelNames) = 2
    /\ notified # <<>> /\ notified[1] \in LevelSet /\ notified[1] # map.mainLevel
    /\ syncsRun = 1
    /\ Len(OverlayEntries(layersControl)) >= 1
    /\ VisibleOverlays # {}
    /\ Len(BaseEntries(layersControl)) = 2


\* level.underlays as the factory reads it: nothing when absent
DeclaredUnderlays(levelName) ==
    IF map.levels[levelName].hasUnderlays THEN map.levels[levelName].underlays ELSE <<>>

\* C14: the base layer of every level is a group whose members are, in order, one
\* renderable per name of level.underlays, each resolved with (mapName, underlayName,
\* layers[0]), followed last by the primary visual resolved with (mapName, levelName,
\* layers[0]); absent or empty underlays give a group of the primary visual alone.
C14_GroupIsUnderlaysThenPrimary ==
    (initCount >= 1 /\ ~GetBaseLayersThrows)
        => /\ Keys(baseLayers) = map.levelNames
           /\ \A k \in 1..Len(baseLayers) :
                 LET levelName == baseLayers[k].key
                     members == baseLayers[k].value.members
                     declared == DeclaredUnderlays(levelName)
                 IN  /\ Len(members) = Len(declared) + 1
                     /\ \A i \in 1..Len(declared) :
                           /\ members[i].id.role = "underlay"
                           /\ members[i].path = Path(pathGetter, MapName, declared[i], Layer0)
                     /\ members[Len(members)].id.role = "primary"
                     /\ members[Len(members)].path
                            = Path(pathGetter, MapName, levelName, Layer0)

\* two levels built, one with two underlays and one with absent underlays
C14_Witness ==
    /\ initCount >= 1 /\ Len(baseLayers) = 2
    /\ \E k \in 1..2 : Len(baseLayers[k].value.members) = 3
    /\ \E k \in 1..2 : /\ ~map.levels[baseLayers[k].key].hasUnderlays
                       /\ Len(baseLayers[k].value.members) = 1


\* the first initialize() built BaseLayers and failed while building Overlays
OverlaysFailedInFirstCall ==
    initCount = 1 /\ status = "threw" /\ ~GetBaseLayersThrows /\ GetOverlaysThrows

\* C15 as stated: the base layers are registered only after both BaseLayers and
\* Overlays are built, so a failure while building Overlays leaves the control
\* without base entry.
C15_NoBaseEntryWhenOverlaysFail ==
    OverlaysFailedInFirstCall => BaseEntries(layersControl) = <<>>

\* C15: BaseLayers is built and registered with the control before Overlays is
\* built: when building Overlays fails, the control holds one base entry per level,
\* in the order of levels and labelled with the level name, and no overlay entry,
\* and Overlays is still empty.
C15_BaseLayersRegisteredBeforeOverlays ==
    OverlaysFailedInFirstCall
        => /\ Keys(baseLayers) = map.levelNames
           /\ BaseEntries(layersControl) =
                  [k \in 1..Len(baseLayers) |->
                      [layer |-> baseLayers[k].value.id, name |-> baseLayers[k].key,
                       overlay |-> FALSE]]
           /\ OverlayEntries(layersControl) = <<>>
           /\ overlays = EmptyObject

\* two levels, the getter throws on an overlay layer
C15_Witness ==
    /\ OverlaysFailedInFirstCall
    /\ Len(map.levelNames) = 2
    /\ Len(BaseEntries(layersControl)) = 2


\* building the layers calls the path getter with a layer name it throws on: every
\* level resolves layers[0] and each of the other layers
PathGetterFails ==
    /\ map.levelNames # <<>>
    /\ \E slot \in 1..Len(map.layers) : PathGetterThrows(pathGetter, map.layers[slot])

\* C16: a failure of the path getter while the layers are built is not caught:
\* initialize() aborts with it, and the state it leaves has no overlay entry in the
\* control, no base layer in the view and no baselayerchange listener subscribed.
C16_PathGetterFailureAborts ==
    /\ (initCount >= 1 /\ PathGetterFails) => status = "threw"
    /\ status = "threw"
          => /\ PathGetterFails
             /\ OverlayEntries(layersControl) = <<>>
             /\ VisibleBaseLayers = {}
             /\ mapLayers = {}
             /\ listeners = 0
             /\ ~mainBaseLayer.defined

\* the getter threw on an overlay layer, of a map whose mainLevel is a level with a
\* base layer built and registered
C16_Witness ==
    /\ status = "threw" /\ MainResolvable
    /\ ~PathGetterThrows(pathGetter, Layer0)
    /\ Has(baseLayers, map.mainLevel)
    /\ Len(BaseEntries(layersControl)) >= 1


\* the positions of the base entries of the control labelled with a level name
BaseEntriesNamed(levelName) ==
    {i \in 1..Len(layersControl) :
        ~layersControl[i].overlay /\ layersControl[i].name = levelName}

\* C17: nothing guards initialize() against a second call, which registers every
\* base layer again: after n calls that built the base layers every level has n base
\* entries in the control, two after the second call, each for a different layer
\* object.
C17_BaseEntriesDuplicated ==
    (initCount >= 1 /\ ~GetBaseLayersThrows)
        => \A levelName \in LevelSet :
              /\ Cardinality(BaseEntriesNamed(levelName)) = initCount
              /\ \A i, j \in BaseEntriesNamed(levelName) :
                    layersControl[i].layer = layersControl[j].layer => i = j

\* initialize() ran twice on a map of two levels
C17_Witness ==
    /\ initCount = 2 /\ status = "active"
    /\ Len(map.levelNames) = 2
    /\ \A levelName \in LevelSet : Cardinality(BaseEntriesNamed(levelName)) = 2
    /\ Len(BaseEntries(layersControl)) = 4

====
